---- MODULE Spec2Model ----
(***************************************************************************)
(* Model of pkg/plugin/keyvault.go: the Key Vault client of the KMS plugin *)
(* (construction, vault endpoint building, proxy rewrite, Encrypt and      *)
(* Decrypt with their base64 framing).                                     *)
(*                                                                         *)
(* A Go string is a sequence of bytes; it is modelled as a sequence of     *)
(* integers in 0..255.  Literals are written through S(<<"a","b">>).       *)
(***************************************************************************)
EXTENDS Integers, Sequences, FiniteSets, TLC

VARIABLES
  call,       \* the last construction-time call made: function name and arguments
  ret,        \* what that call returned
  trace,      \* the collaborator calls that call issued, in program order
  kvc,        \* the constructed keyVaultClient the callers share
  built,      \* the value of kvc when newKeyVaultClient returned it
  callers,    \* per caller: position in Encrypt/Decrypt, arguments, last result
  sent,       \* the addressing of every request handed to baseClient so far
  ncalls,     \* number of Encrypt/Decrypt calls started so far
  crashed     \* TRUE once a goroutine has panicked (the process is gone)

vars == <<call, ret, trace, kvc, built, callers, sent, ncalls, crashed>>

----------------------------------------------------------------------------
(* Strings as byte sequences *)

AsciiTable ==
  <<" ", "!", "quote", "#", "$", "%", "&", "'", "(", ")", "*", "+", ",", "-", ".", "/",
    "0", "1", "2", "3", "4", "5", "6", "7", "8", "9", ":", ";", "<", "=", ">", "?",
    "@", "A", "B", "C", "D", "E", "F", "G", "H", "I", "J", "K", "L", "M", "N", "O",
    "P", "Q", "R", "S", "T", "U", "V", "W", "X", "Y", "Z", "[", "backslash", "]", "^", "_",
    "backtick", "a", "b", "c", "d", "e", "f", "g", "h", "i", "j", "k", "l", "m", "n", "o",
    "p", "q", "r", "s", "t", "u", "v", "w", "x", "y", "z", "{", "|", "}", "~">>

\* The byte of a printable ASCII character: the table starts at 0x20 (the
\* three characters a literal cannot hold are spelled out).
Ord(c) == 31 + (CHOOSE i \in 1..Len(AsciiTable) : AsciiTable[i] = c)

\* A string literal: the bytes of its characters.
S(t) == [i \in 1..Len(t) |-> Ord(t[i])]

HasPrefix(s, p) == Len(s) >= Len(p) /\ SubSeq(s, 1, Len(p)) = p

\* strings.TrimPrefix
TrimPrefix(s, p) == IF HasPrefix(s, p) THEN SubSeq(s, Len(p) + 1, Len(s)) ELSE s

\* strings.Contains
Contains(s, sub) ==
  \E i \in 1..(Len(s) + 1) :
     i + Len(sub) - 1 <= Len(s) /\ SubSeq(s, i, i + Len(sub) - 1) = sub

RECURSIVE Digits(_)
Digits(n) == IF n < 10 THEN <<48 + n>> ELSE Digits(n \div 10) \o <<48 + (n % 10)>>

\* fmt's %d verb
FormatInt(n) == IF n < 0 THEN <<45>> \o Digits(-n) ELSE Digits(n)

RECURSIVE Repeat(_, _)
Repeat(b, n) == IF n = 0 THEN <<>> ELSE <<b>> \o Repeat(b, n - 1)

----------------------------------------------------------------------------
(* Literals of the source and of the environment descriptors *)

SchemeHTTPS == S(<<"h", "t", "t", "p", "s", ":", "/", "/">>)
SchemeHTTP == S(<<"h", "t", "t", "p", ":", "/", "/">>)
Dot == S(<<".">>)
Slash == S(<<"/">>)
Colon == S(<<":">>)

\* azure.NotAvailable
NotAvailable == S(<<"N", "/", "A">>)

\* consts.RequestHeaderTargetType = consts.TargetTypeKeyVault
TargetTypeHeader == "x-azure-proxy-target: KeyVault"

\* kv.RSA15
RSA15 == "RSA1_5"

ErrNone == "nil"
ErrRequired == "key vault name, key name and key version are required"
ErrUserAgent == "failed to add user agent to keyvault client"
ErrCloud == "failed to parse cloud environment"
ErrResource == "keyvault resource identifier not available for cloud"
ErrToken == "failed to get key vault token"
ErrVaultURL == "failed to get vault url"
ErrNameLength == "invalid vault name: must be between 3 and 24 chars"
ErrNameCharset == "invalid vault name: must match [-a-zA-Z0-9]{3,24}"
ErrDNSSuffix == "vault dns suffix not available for cloud"
ErrEncrypt == "failed to encrypt"
ErrDecrypt == "failed to decrypt"
ErrDecode == "failed to base64 decode result"

\* A Go pointer (or slice header) is the set of what it points to: empty
\* when nil, a singleton otherwise.
Null == {}
Ptr(v) == {v}
Deref(p) == CHOOSE v \in p : TRUE

PublicCloud ==
  [Name |-> S(<<"A", "z", "u", "r", "e", "P", "u", "b", "l", "i", "c", "C", "l", "o", "u", "d">>),
   ActiveDirectoryEndpoint |-> S(<<"h", "t", "t", "p", "s", ":", "/", "/", "l", "o", "g", "i", "n", ".", "m", "i", "c", "r", "o", "s", "o", "f", "t", "o", "n", "l", "i", "n", "e", ".", "c", "o", "m", "/">>),
   KeyVaultDNSSuffix |-> S(<<"v", "a", "u", "l", "t", ".", "a", "z", "u", "r", "e", ".", "n", "e", "t">>),
   ManagedHSMDNSSuffix |-> S(<<"m", "a", "n", "a", "g", "e", "d", "h", "s", "m", ".", "a", "z", "u", "r", "e", ".", "n", "e", "t">>),
   ResourceIdentifiers |->
     [KeyVault |-> S(<<"h", "t", "t", "p", "s", ":", "/", "/", "v", "a", "u", "l", "t", ".", "a", "z", "u", "r", "e", ".", "n", "e", "t">>),
      ManagedHSM |-> S(<<"h", "t", "t", "p", "s", ":", "/", "/", "m", "a", "n", "a", "g", "e", "d", "h", "s", "m", ".", "a", "z", "u", "r", "e", ".", "n", "e", "t">>)]]

\* A sovereign cloud without the HSM resource class.
ChinaCloud ==
  [Name |-> S(<<"A", "z", "u", "r", "e", "C", "h", "i", "n", "a", "C", "l", "o", "u", "d">>),
   ActiveDirectoryEndpoint |-> S(<<"h", "t", "t", "p", "s", ":", "/", "/", "l", "o", "g", "i", "n", ".", "c", "h", "i", "n", "a", "c", "l", "o", "u", "d", "a", "p", "i", ".", "c", "n", "/">>),
   KeyVaultDNSSuffix |-> S(<<"v", "a", "u", "l", "t", ".", "a", "z", "u", "r", "e", ".", "c", "n">>),
   ManagedHSMDNSSuffix |-> NotAvailable,
   ResourceIdentifiers |->
     [KeyVault |-> S(<<"h", "t", "t", "p", "s", ":", "/", "/", "v", "a", "u", "l", "t", ".", "a", "z", "u", "r", "e", ".", "c", "n">>),
      ManagedHSM |-> NotAvailable]]

\* A descriptor loaded from a file, where the two fields of one resource
\* class need not agree: the vault class has an identifier and no DNS
\* suffix, the HSM class a DNS suffix and no identifier.
StackCloud ==
  [Name |-> S(<<"A", "Z", "U", "R", "E", "S", "T", "A", "C", "K", "C", "L", "O", "U", "D">>),
   ActiveDirectoryEndpoint |-> S(<<"h", "t", "t", "p", "s", ":", "/", "/", "l", "o", "g", "i", "n", ".", "s", "t", "a", "c", "k", ".", "l", "o", "c", "a", "l", "/">>),
   KeyVaultDNSSuffix |-> NotAvailable,
   ManagedHSMDNSSuffix |-> S(<<"h", "s", "m", ".", "s", "t", "a", "c", "k", ".", "l", "o", "c", "a", "l">>),
   ResourceIdentifiers |->
     [KeyVault |-> S(<<"h", "t", "t", "p", "s", ":", "/", "/", "v", "a", "u", "l", "t", ".", "s", "t", "a", "c", "k", ".", "l", "o", "c", "a", "l">>),
      ManagedHSM |-> NotAvailable]]

Environments == {PublicCloud, ChinaCloud, StackCloud}

----------------------------------------------------------------------------
(* Collaborators of the plugin package *)

Space == {9, 10, 11, 12, 13, 32}
Quote == Ord("quote")

RECURSIVE TrimLeft(_, _)
TrimLeft(s, cut) ==
  IF s # <<>> /\ Head(s) \in cut THEN TrimLeft(Tail(s), cut) ELSE s

RECURSIVE TrimRight(_, _)
TrimRight(s, cut) ==
  IF s # <<>> /\ s[Len(s)] \in cut THEN TrimRight(SubSeq(s, 1, Len(s) - 1), cut) ELSE s

Trim(s, cut) == TrimRight(TrimLeft(s, cut), cut)

\* utils.SanitizeString: surrounding white space and double quotes are trimmed.
SanitizeString(s) == Trim(Trim(Trim(s, Space), {Quote}), Space)

\* auth.ParseAzureEnvironment: the descriptor of a known cloud name, or an error.
ParseAzureEnvironment(cloud) ==
  IF \E e \in Environments : e.Name = cloud
    THEN [env |-> Ptr(CHOOSE e \in Environments : e.Name = cloud), err |-> ErrNone]
    ELSE [env |-> Null, err |-> ErrCloud]

----------------------------------------------------------------------------
(* Endpoint building *)

MinVaultNameLen == 3
MaxVaultNameLen == 24

\* The character class [-A-Za-z0-9].
NameChar == {45} \cup (48..57) \cup (65..90) \cup (97..122)

\* A variant that takes the class for \w and lets "_" through.
isValidWord(s) == Len(s) >= 1 /\ \A i \in 1..Len(s) : s[i] \in NameChar \cup {95}

\* regexp ^[-A-Za-z0-9]+$ (in Go, $ matches at the end of the text only)
isValid(s) == Len(s) >= 1 /\ \A i \in 1..Len(s) : s[i] \in NameChar

getVaultDNSSuffix(managedHSM, env) ==
  IF managedHSM THEN env.ManagedHSMDNSSuffix ELSE env.KeyVaultDNSSuffix

\* A variant that answers the vault's identifier for either class.
getVaultResourceIdentifierAnyClass(managedHSM, env) == env.ResourceIdentifiers.KeyVault

getVaultResourceIdentifier(managedHSM, env) ==
  IF managedHSM THEN env.ResourceIdentifiers.ManagedHSM
                ELSE env.ResourceIdentifiers.KeyVault

\* A variant whose upper length check is off by one.
getVaultURLOffByOne(vaultName, managedHSM, env) ==
  IF Len(vaultName) < MinVaultNameLen \/ Len(vaultName) >= MaxVaultNameLen
    THEN [vaultURL |-> Null, err |-> ErrNameLength]
  ELSE IF ~isValid(vaultName)
    THEN [vaultURL |-> Null, err |-> ErrNameCharset]
  ELSE IF getVaultDNSSuffix(managedHSM, env) = NotAvailable
    THEN [vaultURL |-> Null, err |-> ErrDNSSuffix]
    ELSE [vaultURL |-> Ptr(SchemeHTTPS \o vaultName \o Dot
                             \o getVaultDNSSuffix(managedHSM, env) \o Slash),
          err |-> ErrNone]

getVaultURL(vaultName, managedHSM, env) ==
  IF Len(vaultName) < MinVaultNameLen \/ Len(vaultName) > MaxVaultNameLen
    THEN [vaultURL |-> Null, err |-> ErrNameLength]
  ELSE IF ~isValid(vaultName)
    THEN [vaultURL |-> Null, err |-> ErrNameCharset]
  ELSE LET vaultDNSSuffixValue == getVaultDNSSuffix(managedHSM, env) IN
    IF vaultDNSSuffixValue = NotAvailable
      THEN [vaultURL |-> Null, err |-> ErrDNSSuffix]
      ELSE [vaultURL |-> Ptr(SchemeHTTPS \o vaultName \o Dot \o vaultDNSSuffixValue \o Slash),
            err |-> ErrNone]

\* A variant that keeps the scheme of the original URL in the path.
getProxiedVaultURLKeepScheme(vaultURL, proxyAddress, proxyPort) ==
  Ptr(SchemeHTTP \o proxyAddress \o Colon \o FormatInt(proxyPort) \o Slash
        \o Deref(vaultURL))

getProxiedVaultURL(vaultURL, proxyAddress, proxyPort) ==
  Ptr(SchemeHTTP \o proxyAddress \o Colon \o FormatInt(proxyPort) \o Slash
        \o TrimPrefix(Deref(vaultURL), SchemeHTTPS))

----------------------------------------------------------------------------
(* Construction *)

Step(name, arg) == [step |-> name, arg |-> arg]

\* A variant that forgets the key version.
missingRequiredNoVersion(vaultName, keyName, keyVersion) ==
  Len(vaultName) = 0 \/ Len(keyName) = 0

\* "key vault name, key name and key version are required"
missingRequired(vaultName, keyName, keyVersion) ==
  Len(vaultName) = 0 \/ Len(keyName) = 0 \/ Len(keyVersion) = 0

Failed(err, steps) == [client |-> Null, err |-> err, steps |-> steps]

\* ext holds what the collaborators outside the package answer: whether
\* AddToUserAgent and auth.GetKeyvaultToken succeed.
newKeyVaultClient(config, vaultName0, keyName0, keyVersion0, proxyMode, proxyAddress, proxyPort, managedHSM, ext) ==
  LET vaultName == SanitizeString(vaultName0)
      keyName == SanitizeString(keyName0)
      keyVersion == SanitizeString(keyVersion0)
      s1 == <<Step("required", <<>>)>>
      s2 == s1 \o <<Step("AddToUserAgent", <<>>)>>
      s3 == s2 \o <<Step("ParseAzureEnvironment", config.Cloud)>>
      parsed == ParseAzureEnvironment(config.Cloud)
      env == IF proxyMode
               THEN [Deref(parsed.env) EXCEPT !.ActiveDirectoryEndpoint =
                       SchemeHTTP \o proxyAddress \o Colon \o FormatInt(proxyPort) \o Slash]
               ELSE Deref(parsed.env)
      vaultResourceURL == getVaultResourceIdentifier(managedHSM, env)
      s4 == s3 \o <<Step("getVaultResourceIdentifier", <<>>)>>
      s5 == s4 \o <<Step("GetKeyvaultToken", vaultResourceURL)>>
      s6 == s5 \o <<Step("getVaultURL", vaultName)>>
      url == getVaultURL(vaultName, managedHSM, env)
      vaultURL == IF proxyMode
                    THEN getProxiedVaultURL(url.vaultURL, proxyAddress, proxyPort)
                    ELSE url.vaultURL
  IN
  IF missingRequired(vaultName, keyName, keyVersion)
    THEN Failed(ErrRequired, s1)
  ELSE IF ~ext.userAgentOk THEN Failed(ErrUserAgent, s2)
  ELSE IF parsed.err # ErrNone THEN Failed(ErrCloud, s3)
  ELSE IF vaultResourceURL = NotAvailable THEN Failed(ErrResource, s4)
  ELSE IF ~ext.tokenOk THEN Failed(ErrToken, s5)
  ELSE IF url.err # ErrNone THEN Failed(ErrVaultURL, s6)
  ELSE [client |->
          Ptr([baseClient |->
                 [Authorizer |-> [resource |-> vaultResourceURL],
                  RequestInspector |-> IF proxyMode THEN Ptr(TargetTypeHeader) ELSE Null],
               config |-> config,
               vaultName |-> vaultName,
               keyName |-> keyName,
               keyVersion |-> keyVersion,
               vaultURL |-> Deref(vaultURL),
               azureEnvironment |-> env]),
        err |-> ErrNone,
        steps |-> IF proxyMode THEN s6 \o <<Step("getProxiedVaultURL", Deref(url.vaultURL))>>
                               ELSE s6]

----------------------------------------------------------------------------
(* Inputs *)

\* Vault names are a short prefix followed by up to MaxPad letters, so that
\* every length from 0 to beyond MaxVaultNameLen occurs.
MaxPad == 25

MyVault == S(<<"m", "y", "-", "v", "a", "u", "l", "t">>)
Key1 == S(<<"k", "e", "y", "1">>)
Abc123 == S(<<"a", "b", "c", "1", "2", "3">>)
Localhost == S(<<"1", "2", "7", ".", "0", ".", "0", ".", "1">>)
ExampleVaultURL ==
  S(<<"h", "t", "t", "p", "s", ":", "/", "/", "m", "y", "v", "a", "u", "l", "t", ".",
      "v", "a", "u", "l", "t", ".", "a", "z", "u", "r", "e", ".", "n", "e", "t", "/">>)
ExampleProxiedURL ==
  S(<<"h", "t", "t", "p", ":", "/", "/", "1", "2", "7", ".", "0", ".", "0", ".", "1",
      ":", "8", "0", "8", "0", "/", "m", "y", "v", "a", "u", "l", "t", ".",
      "v", "a", "u", "l", "t", ".", "a", "z", "u", "r", "e", ".", "n", "e", "t", "/">>)

NamePrefixes ==
  { <<>>, S(<<"-">>), S(<<"A", "9">>), S(<<"a", ".", "b">>), S(<<"a", "_", "b">>),
    S(<<"a", " ", "b">>), S(<<"N", "/", "A">>), <<195, 169>>, <<97, 98, 99, 10>> }

VaultNames == { p \o Repeat(Ord("z"), n) : p \in NamePrefixes, n \in 0..MaxPad }

RawVaultNames ==
  { <<>>, <<32, 32>>, <<Quote, Quote>>, <<Quote>> \o MyVault \o <<Quote>>,
    <<32>> \o MyVault \o <<10>>, MyVault, S(<<"a", "b">>), S(<<"m", "y", "_", "v">>),
    Repeat(Ord("a"), MaxVaultNameLen), Repeat(Ord("a"), MaxVaultNameLen + 1) }

RawKeyNames == { <<>>, Key1, <<32>> \o Key1 }

RawKeyVersions == { <<>>, Abc123, <<Quote, 32, Quote>> }

CloudNames ==
  { e.Name : e \in Environments } \cup { <<>>, S(<<"b", "o", "g", "u", "s">>) }

ProxyAddresses == { Localhost, S(<<"p", "r", "o", "x", "y">>) }

ProxyPorts == { -1, 0, 80, 8080, 65535 }

ProxiedInputs ==
  { ExampleVaultURL, <<>>, SchemeHTTPS, SchemeHTTP \o S(<<"x", "/">>),
    SchemeHTTPS \o SchemeHTTPS \o S(<<"h", "/">>) }

Exts == [userAgentOk : BOOLEAN, tokenOk : BOOLEAN]

Callers == {"c1", "c2"}

\* The payloads handed to Encrypt: empty, short, bytes beyond ASCII, every
\* remainder modulo 3.
Plaintexts == { <<>>, <<1, 2>>, <<255>>, <<251, 255, 190>>, <<0, 128, 255, 10>> }

\* Bytes handed to Decrypt that no Encrypt returned.
ForeignCiphertext == <<255, 0>>

\* Encrypt/Decrypt calls started in one behaviour.
MaxCalls == 3

\* A caller between calls; op tells which call it last returned from.
Idle ==
  [pc |-> "idle", op |-> "none", arg |-> <<>>, req |-> Null, resp |-> Null,
   bytes |-> Null, err |-> ErrNone, decoded |-> FALSE,
   plain |-> Null, encHonest |-> FALSE]

----------------------------------------------------------------------------
(* Construction-time calls as actions.  The three functions keep no state
   between calls, so a behaviour makes one call, on inputs of its choice. *)

InitNew ==
  /\ call = [fn |-> "none"]
  /\ ret = [val |-> Null, err |-> ErrNone]
  /\ trace = <<>>
  /\ kvc = Null
  /\ built = Null
  /\ callers = [c \in Callers |-> Idle]
  /\ sent = {}
  /\ ncalls = 0
  /\ crashed = FALSE

NewKeyVaultClient ==
  /\ call.fn = "none"
  /\ \E cloud \in CloudNames, vaultName \in RawVaultNames, keyName \in RawKeyNames,
     keyVersion \in RawKeyVersions, proxyMode \in BOOLEAN,
     managedHSM \in BOOLEAN, ext \in Exts :
    LET config == [Cloud |-> cloud]
        r == newKeyVaultClient(config, vaultName, keyName, keyVersion,
                               proxyMode, Localhost, 8080, managedHSM, ext)
    IN /\ call' = [fn |-> "newKeyVaultClient", config |-> config,
                   vaultName |-> vaultName, keyName |-> keyName,
                   keyVersion |-> keyVersion, proxyMode |-> proxyMode,
                   proxyAddress |-> Localhost, proxyPort |-> 8080,
                   managedHSM |-> managedHSM, ext |-> ext]
       /\ ret' = [val |-> r.client, err |-> r.err]
       /\ trace' = r.steps
       /\ kvc' = r.client
       /\ built' = r.client
       /\ UNCHANGED <<callers, sent, ncalls, crashed>>

GetVaultURL ==
  /\ call.fn = "none"
  /\ \E vaultName \in VaultNames, managedHSM \in BOOLEAN, env \in Environments :
    LET r == getVaultURL(vaultName, managedHSM, env)
    IN /\ call' = [fn |-> "getVaultURL", vaultName |-> vaultName,
                   managedHSM |-> managedHSM, env |-> env]
       /\ ret' = [val |-> r.vaultURL, err |-> r.err]
       /\ trace' = <<>>
       /\ UNCHANGED <<kvc, built, callers, sent, ncalls, crashed>>

GetProxiedVaultURL ==
  /\ call.fn = "none"
  /\ \E vaultURL \in ProxiedInputs, proxyAddress \in ProxyAddresses,
     proxyPort \in ProxyPorts :
    /\ call' = [fn |-> "getProxiedVaultURL", vaultURL |-> vaultURL,
                proxyAddress |-> proxyAddress, proxyPort |-> proxyPort]
    /\ ret' = [val |-> getProxiedVaultURL(Ptr(vaultURL), proxyAddress, proxyPort),
               err |-> ErrNone]
    /\ trace' = <<>>
    /\ UNCHANGED <<kvc, built, callers, sent, ncalls, crashed>>

NextNew == NewKeyVaultClient \/ GetVaultURL \/ GetProxiedVaultURL

SpecNew == InitNew /\ [][NextNew]_vars

----------------------------------------------------------------------------
(* Binary framing: encoding/base64's RawURLEncoding *)

encodeURL ==
  S(<<"A", "B", "C", "D", "E", "F", "G", "H", "I", "J", "K", "L", "M", "N", "O", "P",
      "Q", "R", "S", "T", "U", "V", "W", "X", "Y", "Z", "a", "b", "c", "d", "e", "f",
      "g", "h", "i", "j", "k", "l", "m", "n", "o", "p", "q", "r", "s", "t", "u", "v",
      "w", "x", "y", "z", "0", "1", "2", "3", "4", "5", "6", "7", "8", "9", "-", "_">>)

Sextet(val, k) == encodeURL[((val \div (64 ^ (3 - k))) % 64) + 1]

\* RawURLEncoding.EncodeToString: 3 bytes to 4 characters, a remainder of
\* 1 or 2 bytes to 2 or 3 characters, no padding.
RECURSIVE EncodeToString(_)
EncodeToString(src) ==
  IF Len(src) = 0 THEN <<>>
  ELSE IF Len(src) = 1 THEN
    LET val == src[1] * 65536 IN <<Sextet(val, 0), Sextet(val, 1)>>
  ELSE IF Len(src) = 2 THEN
    LET val == src[1] * 65536 + src[2] * 256
    IN <<Sextet(val, 0), Sextet(val, 1), Sextet(val, 2)>>
  ELSE
    LET val == src[1] * 65536 + src[2] * 256 + src[3]
    IN <<Sextet(val, 0), Sextet(val, 1), Sextet(val, 2), Sextet(val, 3)>>
         \o EncodeToString(SubSeq(src, 4, Len(src)))

InAlphabet(c) == \E i \in 1..64 : encodeURL[i] = c

decodeMap(c) == (CHOOSE i \in 1..64 : encodeURL[i] = c) - 1

\* The bytes of the quanta of an all-alphabet string whose length is not 1 mod 4.
RECURSIVE decodeQuanta(_)
decodeQuanta(s) ==
  IF Len(s) = 0 THEN <<>>
  ELSE IF Len(s) = 2 THEN
    LET val == decodeMap(s[1]) * 262144 + decodeMap(s[2]) * 4096
    IN <<val \div 65536>>
  ELSE IF Len(s) = 3 THEN
    LET val == decodeMap(s[1]) * 262144 + decodeMap(s[2]) * 4096 + decodeMap(s[3]) * 64
    IN <<val \div 65536, (val \div 256) % 256>>
  ELSE
    LET val == decodeMap(s[1]) * 262144 + decodeMap(s[2]) * 4096
                 + decodeMap(s[3]) * 64 + decodeMap(s[4])
    IN <<val \div 65536, (val \div 256) % 256, val % 256>>
         \o decodeQuanta(SubSeq(s, 5, Len(s)))

NotNewline(c) == c # 10 /\ c # 13

\* RawURLEncoding.DecodeString: "\r" and "\n" are skipped wherever they
\* stand; any other byte outside the alphabet (the padding "=" too) and a
\* final quantum of one character are a CorruptInputError.  The encoding is
\* not strict: the unused bits of the last character are not checked.
\* (On an error Go also hands back the bytes decoded so far; Decrypt drops
\* them, so they are left out here.)
DecodeString(s) ==
  LET t == SelectSeq(s, NotNewline)
  IN IF (\E i \in 1..Len(t) : ~InAlphabet(t[i])) \/ Len(t) % 4 = 1
       THEN [bytes |-> <<>>, err |-> TRUE]
       ELSE [bytes |-> decodeQuanta(t), err |-> FALSE]

----------------------------------------------------------------------------
(* The remote key store behind kv.BaseClient *)

KeyTag(req) == (req.keyName[1] + req.keyVersion[1]) % 256

wrap(tag, p) == <<tag>> \o [i \in 1..Len(p) |-> (p[i] + tag) % 256]

unwrap(blob) == [i \in 1..(Len(blob) - 1) |-> (blob[i + 1] - blob[1] + 256) % 256]

Response(err, result, honest) == [err |-> err, Result |-> result, honest |-> honest]

\* A store that honours the wire contract: encrypt takes base64url-no-pad
\* plaintext and answers the base64url-no-pad ciphertext; decrypt takes that
\* string and answers the base64url-no-pad plaintext; a value it cannot
\* read, or a blob of another key version, is refused.
HonestResponse(req) ==
  LET d == DecodeString(req.Value) IN
  IF d.err \/ ~(\A i \in 1..Len(req.Value) : InAlphabet(req.Value[i]))
       \/ req.Algorithm # RSA15
    THEN Response(TRUE, Null, TRUE)
  ELSE IF req.op = "encrypt"
    THEN Response(FALSE, Ptr(EncodeToString(wrap(KeyTag(req), d.bytes))), TRUE)
  ELSE IF Len(d.bytes) = 0 \/ d.bytes[1] # KeyTag(req)
    THEN Response(TRUE, Null, TRUE)
    ELSE Response(FALSE, Ptr(EncodeToString(unwrap(d.bytes))), TRUE)

\* Results a store or a proxy that does not honour the contract may send.
StrayResults(op) ==
  IF op = "encrypt"
    THEN { S(<<"a", "+", "b", "=">>) }
    ELSE { S(<<"Q", "U", "J", "D">>) \o <<10>>, S(<<"Q", "U", "J", "D", "=">>),
           S(<<"Q", "U", "J", "D", "R">>), S(<<"Q", "R">>) }

\* Everything baseClient.Encrypt / baseClient.Decrypt may return: an error,
\* a response without a result, a stray result, or the honest answer.
Responses(req) ==
  { Response(TRUE, Null, FALSE), Response(FALSE, Null, FALSE), HonestResponse(req) }
    \cup { Response(FALSE, Ptr(s), FALSE) : s \in StrayResults(req.op) }

----------------------------------------------------------------------------
(* Encrypt and Decrypt *)

Request(op, k, value) ==
  [op |-> op, vaultURL |-> k.vaultURL, keyName |-> k.keyName,
   keyVersion |-> k.keyVersion, Algorithm |-> RSA15, Value |-> value]

Return(bytes, err, decoded) ==
  [bytes |-> bytes, err |-> err, panic |-> FALSE, decoded |-> decoded]

\* The dereference of a nil *string: a run-time panic.
Panic == [bytes |-> Null, err |-> ErrNone, panic |-> TRUE, decoded |-> FALSE]

\* Encrypt up to the call of baseClient.Encrypt
encryptRequest(k, cipher) == Request("encrypt", k, EncodeToString(cipher))

\* A variant that base64-decodes the result, as Decrypt does.
encryptResultDecoded(resp) ==
  IF resp.err THEN Return(Null, ErrEncrypt, FALSE)
  ELSE IF resp.Result = Null THEN Panic
  ELSE LET d == DecodeString(Deref(resp.Result)) IN
    IF d.err THEN Return(Null, ErrEncrypt, TRUE)
             ELSE Return(Ptr(d.bytes), ErrNone, TRUE)

\* Encrypt from the return of baseClient.Encrypt
encryptResult(resp) ==
  IF resp.err THEN Return(Null, ErrEncrypt, FALSE)
  ELSE IF resp.Result = Null THEN Panic
  ELSE Return(Ptr(Deref(resp.Result)), ErrNone, FALSE)

\* A variant that addresses the request with the vault's name, not its URL.
decryptRequestByName(k, plain) ==
  [Request("decrypt", k, plain) EXCEPT !.vaultURL = k.vaultName]

\* Decrypt up to the call of baseClient.Decrypt
decryptRequest(k, plain) == Request("decrypt", k, plain)

\* A variant that returns the result string undecoded.
decryptResultRaw(resp) ==
  IF resp.err THEN Return(Null, ErrDecrypt, FALSE)
  ELSE IF resp.Result = Null THEN Panic
  ELSE Return(Ptr(Deref(resp.Result)), ErrNone, FALSE)

\* A variant that reports a decoding failure as a failed operation.
decryptResultOneError(resp) ==
  IF resp.err THEN Return(Null, ErrDecrypt, FALSE)
  ELSE IF resp.Result = Null THEN Panic
  ELSE LET d == DecodeString(Deref(resp.Result)) IN
    IF d.err THEN Return(Null, ErrDecrypt, TRUE)
             ELSE Return(Ptr(d.bytes), ErrNone, TRUE)

\* Decrypt from the return of baseClient.Decrypt
decryptResult(resp) ==
  IF resp.err THEN Return(Null, ErrDecrypt, FALSE)
  ELSE IF resp.Result = Null THEN Panic
  ELSE LET d == DecodeString(Deref(resp.Result)) IN
    IF d.err THEN Return(Null, ErrDecode, TRUE)
             ELSE Return(Ptr(d.bytes), ErrNone, TRUE)

----------------------------------------------------------------------------
(* Concurrent callers of one client *)

Address(req) ==
  [op |-> req.op, vaultURL |-> req.vaultURL, keyName |-> req.keyName,
   keyVersion |-> req.keyVersion, Algorithm |-> req.Algorithm]

\* The state after newKeyVaultClient returned a client, direct or proxied.
Init ==
  \E proxyMode \in BOOLEAN :
    LET config == [Cloud |-> PublicCloud.Name]
        ext == [userAgentOk |-> TRUE, tokenOk |-> TRUE]
        r == newKeyVaultClient(config, MyVault, Key1, Abc123,
                               proxyMode, Localhost, 8080, FALSE, ext)
    IN /\ call = [fn |-> "newKeyVaultClient", config |-> config,
                  vaultName |-> MyVault, keyName |-> Key1, keyVersion |-> Abc123,
                  proxyMode |-> proxyMode, proxyAddress |-> Localhost,
                  proxyPort |-> 8080, managedHSM |-> FALSE, ext |-> ext]
       /\ ret = [val |-> r.client, err |-> r.err]
       /\ trace = r.steps
       /\ kvc = r.client
       /\ built = r.client
       /\ callers = [c \in Callers |-> Idle]
       /\ sent = {}
       /\ ncalls = 0
       /\ crashed = FALSE

CanCall(c) ==
  /\ ~crashed
  /\ kvc # Null
  /\ callers[c].pc = "idle"
  /\ ncalls < MaxCalls

Started(c, op, arg, req, plain, encHonest) ==
  /\ callers' = [callers EXCEPT ![c] =
       [pc |-> op, op |-> op, arg |-> arg, req |-> Ptr(req), resp |-> Null,
        bytes |-> Null, err |-> ErrNone, decoded |-> FALSE,
        plain |-> plain, encHonest |-> encHonest]]
  /\ sent' = sent \cup {Address(req)}
  /\ ncalls' = ncalls + 1
  /\ UNCHANGED <<call, ret, trace, kvc, built, crashed>>

Returned(c, resp, r) ==
  /\ callers' = [callers EXCEPT ![c] =
       [@ EXCEPT !.pc = IF r.panic THEN "panic" ELSE "idle",
                 !.resp = Ptr(resp), !.bytes = r.bytes, !.err = r.err,
                 !.decoded = r.decoded]]
  /\ crashed' = r.panic
  /\ UNCHANGED <<call, ret, trace, kvc, built, sent, ncalls>>

EncryptCall(c) ==
  /\ CanCall(c)
  /\ \E cipher \in Plaintexts :
       Started(c, "Encrypt", cipher, encryptRequest(Deref(kvc), cipher), Null, FALSE)

EncryptReturn(c) ==
  /\ ~crashed
  /\ callers[c].pc = "Encrypt"
  /\ \E resp \in Responses(Deref(callers[c].req)) :
       Returned(c, resp, encryptResult(resp))

\* What Decrypt is called with: the bytes some Encrypt returned (with the
\* plaintext they came from), or bytes of another origin.
DecryptArgs ==
  { [arg |-> Deref(callers[d].bytes), plain |-> Ptr(callers[d].arg),
     encHonest |-> Deref(callers[d].resp).honest] :
      d \in { e \in Callers : /\ callers[e].pc = "idle"
                              /\ callers[e].op = "Encrypt"
                              /\ callers[e].bytes # Null } }
    \cup { [arg |-> ForeignCiphertext, plain |-> Null, encHonest |-> FALSE] }

DecryptCall(c) ==
  /\ CanCall(c)
  /\ \E a \in DecryptArgs :
       Started(c, "Decrypt", a.arg, decryptRequest(Deref(kvc), a.arg),
               a.plain, a.encHonest)

DecryptReturn(c) ==
  /\ ~crashed
  /\ callers[c].pc = "Decrypt"
  /\ \E resp \in Responses(Deref(callers[c].req)) :
       Returned(c, resp, decryptResult(resp))

Next ==
  \E c \in Callers :
    \/ EncryptCall(c)
    \/ EncryptReturn(c)
    \/ DecryptCall(c)
    \/ DecryptReturn(c)

Spec == Init /\ [][Next]_vars

----------------------------------------------------------------------------
(* Properties of endpoint building and construction *)

IsNew == call.fn = "newKeyVaultClient"

\* What the claims call the selected DNS suffix and resource identifier.
SuffixOf(managedHSM, env) ==
  IF managedHSM THEN env.ManagedHSMDNSSuffix ELSE env.KeyVaultDNSSuffix

ResourceOf(managedHSM, env) ==
  IF managedHSM THEN env.ResourceIdentifiers.ManagedHSM
                ELSE env.ResourceIdentifiers.KeyVault

WellFormedName(n) ==
  /\ Len(n) \in 3..24
  /\ \A i \in 1..Len(n) :
       \/ n[i] = Ord("-")
       \/ n[i] \in Ord("A")..Ord("Z")
       \/ n[i] \in Ord("a")..Ord("z")
       \/ n[i] \in Ord("0")..Ord("9")

KnownCloud(cloud) == \E e \in Environments : e.Name = cloud

EnvOf(cloud) == CHOOSE e \in Environments : e.Name = cloud

TokenSteps == { i \in 1..Len(trace) : trace[i].step = "GetKeyvaultToken" }

StepAt(name) == { i \in 1..Len(trace) : trace[i].step = name }

\* C1: getVaultURL succeeds exactly for names of 3..24 characters of
\* [-A-Za-z0-9] whose selected DNS suffix is available; the URL is then
\* "https://" name "." suffix "/" with the name unchanged, and every other
\* name gets an error and no URL.
C1_VaultURL ==
  call.fn = "getVaultURL" =>
    LET suffix == SuffixOf(call.managedHSM, call.env)
        good == WellFormedName(call.vaultName) /\ suffix # NotAvailable
    IN /\ (ret.err = ErrNone) <=> good
       /\ good => ret.val = {SchemeHTTPS \o call.vaultName \o Dot \o suffix \o Slash}
       /\ ~good => ret.val = Null /\ ret.err # ErrNone
       /\ ~WellFormedName(call.vaultName) =>
            ret.err \in {ErrNameLength, ErrNameCharset}

C1_Witness ==
  /\ call.fn = "getVaultURL"
  /\ Len(call.vaultName) = 24
  /\ call.managedHSM
  /\ ret.err = ErrNone
  /\ ret.val # Null

\* C2: newKeyVaultClient returns a client only when every construction check
\* passed (coordinates non-empty after sanitization, known cloud, resource
\* identifier and DNS suffix available, token obtained, vault name valid);
\* otherwise it returns an error and a nil client, and it never returns a
\* client together with an error.
C2_NoPartialClient ==
  IsNew =>
    LET v == SanitizeString(call.vaultName)
        empty == \/ SanitizeString(call.vaultName) = <<>>
                 \/ SanitizeString(call.keyName) = <<>>
                 \/ SanitizeString(call.keyVersion) = <<>>
        known == KnownCloud(call.config.Cloud)
        env == EnvOf(call.config.Cloud)
        bad == \/ empty
               \/ ~known
               \/ ResourceOf(call.managedHSM, env) = NotAvailable
               \/ SuffixOf(call.managedHSM, env) = NotAvailable
               \/ ~call.ext.tokenOk
               \/ ~WellFormedName(v)
    IN /\ (ret.val # Null) <=> (ret.err = ErrNone)
       /\ bad => ret.val = Null /\ ret.err # ErrNone
       /\ Cardinality(ret.val) <= 1

C2_Witness ==
  /\ IsNew
  /\ ~call.ext.tokenOk
  /\ ret.err = ErrToken
  /\ ret.val = Null

\* C3: when the environment marks the requested resource class "N/A" for the
\* DNS suffix or for the resource identifier, endpoint building and
\* construction fail with an error, and no vault URL and no token audience
\* holding the sentinel is ever produced or handed to the credential provider.
C3_NotAvailableFails ==
  /\ call.fn = "getVaultURL" =>
       /\ SuffixOf(call.managedHSM, call.env) = NotAvailable =>
            ret.val = Null /\ ret.err # ErrNone
       /\ \A u \in ret.val : ~Contains(u, NotAvailable)
  /\ IsNew =>
       /\ KnownCloud(call.config.Cloud) =>
            LET env == EnvOf(call.config.Cloud) IN
            (\/ SuffixOf(call.managedHSM, env) = NotAvailable
             \/ ResourceOf(call.managedHSM, env) = NotAvailable)
              => ret.val = Null /\ ret.err # ErrNone
       /\ \A i \in TokenSteps : ~Contains(trace[i].arg, NotAvailable)
       /\ \A c \in ret.val :
            /\ ~Contains(c.vaultURL, NotAvailable)
            /\ ~Contains(c.baseClient.Authorizer.resource, NotAvailable)

C3_Witness ==
  /\ IsNew
  /\ call.config.Cloud = StackCloud.Name
  /\ call.managedHSM
  /\ call.ext.tokenOk /\ call.ext.userAgentOk
  /\ SanitizeString(call.vaultName) = MyVault
  /\ SanitizeString(call.keyName) # <<>> /\ SanitizeString(call.keyVersion) # <<>>
  /\ ret.err = ErrResource
  /\ TokenSteps = {}

\* C7: getProxiedVaultURL gives "http://" addr ":" port "/" followed by the
\* url without its leading "https://"; construction applies the rewrite and
\* the target-type header exactly when proxyMode is true and keeps the https
\* URL otherwise.
C7_ProxyRewrite ==
  /\ call.fn = "getProxiedVaultURL" =>
       LET u == call.vaultURL
           rest == IF Len(u) >= 8 /\ SubSeq(u, 1, 8) = SchemeHTTPS
                     THEN SubSeq(u, 9, Len(u)) ELSE u
       IN /\ ret.val = {SchemeHTTP \o call.proxyAddress \o Colon
                          \o FormatInt(call.proxyPort) \o Slash \o rest}
          /\ (u = ExampleVaultURL /\ call.proxyAddress = Localhost
                /\ call.proxyPort = 8080) => ret.val = {ExampleProxiedURL}
  /\ IsNew =>
       \A c \in ret.val :
         LET direct == SchemeHTTPS \o c.vaultName \o Dot
                         \o SuffixOf(call.managedHSM, c.azureEnvironment) \o Slash
         IN IF call.proxyMode
              THEN /\ c.baseClient.RequestInspector = {TargetTypeHeader}
                   /\ c.vaultURL = SchemeHTTP \o call.proxyAddress \o Colon
                        \o FormatInt(call.proxyPort) \o Slash
                        \o c.vaultName \o Dot
                        \o SuffixOf(call.managedHSM, c.azureEnvironment) \o Slash
              ELSE /\ c.baseClient.RequestInspector = Null
                   /\ c.vaultURL = direct

C7_Witness ==
  /\ call.fn = "getProxiedVaultURL"
  /\ call.vaultURL = ExampleVaultURL
  /\ call.proxyAddress = Localhost
  /\ call.proxyPort = 8080
  /\ ret.val = {ExampleProxiedURL}

\* C10 as stated: the vault endpoint is built before the credential is
\* requested, so a construction that fails the emptiness check or the
\* vault-name validation has issued no token request.
C10_Original ==
  IsNew =>
    /\ \A i \in TokenSteps : \E j \in StepAt("getVaultURL") : j < i
    /\ ret.err \in {ErrRequired, ErrVaultURL} => TokenSteps = {}

\* C10 (amended): construction checks the coordinates for emptiness, resolves
\* the audience, requests the credential and only then builds the vault
\* endpoint; a construction with an empty coordinate or an unavailable
\* audience issues no token request, and one that fails building the vault
\* endpoint has issued exactly one, with the resolved audience.
C10_Order ==
  IsNew =>
    /\ \A i \in StepAt("getVaultResourceIdentifier") :
         \E j \in StepAt("required") : j < i
    /\ \A i \in TokenSteps :
         /\ \E j \in StepAt("getVaultResourceIdentifier") : j < i
         /\ \A j \in StepAt("getVaultURL") : i < j
         /\ trace[i].arg =
              ResourceOf(call.managedHSM, EnvOf(call.config.Cloud))
    /\ \A j \in StepAt("getVaultURL") : \E i \in TokenSteps : i < j
    /\ (\/ SanitizeString(call.vaultName) = <<>>
        \/ SanitizeString(call.keyName) = <<>>
        \/ SanitizeString(call.keyVersion) = <<>>) => TokenSteps = {}
    /\ ret.err \in {ErrRequired, ErrResource} => TokenSteps = {}
    /\ ret.err = ErrVaultURL => Cardinality(TokenSteps) = 1

C10_Witness ==
  /\ IsNew
  /\ ret.err = ErrVaultURL
  /\ ~WellFormedName(SanitizeString(call.vaultName))
  /\ Cardinality(TokenSteps) = 1

----------------------------------------------------------------------------
(* Properties of Encrypt and Decrypt *)

Done(c, op) == callers[c].pc = "idle" /\ callers[c].op = op

\* A string over the URL-safe alphabet whose length is not 1 modulo 4.
RawURLBase64(s) == (\A i \in 1..Len(s) : InAlphabet(s[i])) /\ Len(s) % 4 # 1

\* The same once the "\r" and "\n" bytes are dropped.
RawURLBase64Lenient(s) == RawURLBase64(SelectSeq(s, NotNewline))

\* C4: on one client, Decrypt(Encrypt(p)) = p for every byte sequence p when
\* the store honours the wire contract on both calls.
C4_RoundTrip ==
  \A c \in Callers :
    /\ (Done(c, "Encrypt") /\ Deref(callers[c].resp).honest) =>
         callers[c].err = ErrNone /\ callers[c].bytes # Null
    /\ (/\ Done(c, "Decrypt")
        /\ callers[c].plain # Null
        /\ callers[c].encHonest
        /\ Deref(callers[c].resp).honest) =>
         callers[c].err = ErrNone /\ callers[c].bytes = callers[c].plain

C4_Witness ==
  \E c \in Callers :
    /\ Done(c, "Decrypt")
    /\ callers[c].encHonest
    /\ Deref(callers[c].resp).honest
    /\ callers[c].plain = {<<0, 128, 255, 10>>}
    /\ callers[c].bytes = {<<0, 128, 255, 10>>}
    /\ callers[c].arg # <<0, 128, 255, 10>>

\* C5: Encrypt sends the unpadded URL-safe base64 of the plaintext with the
\* algorithm RSA1_5, and on success returns the bytes of the response's
\* result string as they are.
C5_EncryptFraming ==
  \A c \in Callers :
    callers[c].op = "Encrypt" =>
      LET q == Deref(callers[c].req) IN
      /\ q.op = "encrypt"
      /\ q.Algorithm = "RSA1_5"
      /\ q.Value = EncodeToString(callers[c].arg)
      /\ callers[c].arg = <<>> => q.Value = <<>>
      /\ callers[c].arg = <<1, 2>> => q.Value = S(<<"A", "Q", "I">>)
      /\ callers[c].arg = <<255>> => q.Value = S(<<"_", "w">>)
      /\ callers[c].arg = <<251, 255, 190>> => q.Value = S(<<"-", "_", "-", "-">>)
      /\ callers[c].arg = <<0, 128, 255, 10>>
           => q.Value = S(<<"A", "I", "D", "_", "C", "g">>)
      /\ (Done(c, "Encrypt") /\ callers[c].err = ErrNone) =>
           /\ ~Deref(callers[c].resp).err
           /\ callers[c].bytes = Deref(callers[c].resp).Result
           /\ callers[c].bytes # Null
      /\ (Done(c, "Encrypt") /\ callers[c].err # ErrNone) =>
           Deref(callers[c].resp).err

C5_Witness ==
  \E c \in Callers :
    /\ Done(c, "Encrypt")
    /\ callers[c].arg = <<251, 255, 190>>
    /\ callers[c].err = ErrNone
    /\ callers[c].bytes = {S(<<"a", "+", "b", "=">>)}

DecryptErrors(c, valid(_)) ==
  Done(c, "Decrypt") =>
    LET r == Deref(callers[c].resp) IN
    /\ r.err => /\ callers[c].err = ErrDecrypt
                /\ callers[c].bytes = Null
                /\ ~callers[c].decoded
    /\ (~r.err /\ ~valid(Deref(r.Result))) =>
         /\ callers[c].err = ErrDecode
         /\ callers[c].bytes = Null
    /\ callers[c].err = ErrDecode => ~r.err
    /\ callers[c].err = ErrDecrypt => r.err
    /\ callers[c].err \in {ErrNone, ErrDecrypt, ErrDecode}

\* C6 as stated: a failed remote call gives "failed to decrypt" without any
\* decoding, a result that is not valid unpadded URL-safe base64 gives
\* "failed to base64 decode result", no bytes come with either, and neither
\* error is reported for the other cause.
C6_Original == \A c \in Callers : DecryptErrors(c, RawURLBase64)

\* C6 (amended): the same, where a result counts as valid unpadded URL-safe
\* base64 once its "\r" and "\n" bytes are dropped, which the decoder skips.
C6_DecryptErrors == \A c \in Callers : DecryptErrors(c, RawURLBase64Lenient)

C6_Witness ==
  /\ \E c \in Callers :
       /\ Done(c, "Decrypt")
       /\ ~Deref(callers[c].resp).err
       /\ Deref(callers[c].resp).Result = {S(<<"Q", "U", "J", "D", "R">>)}
       /\ callers[c].err = ErrDecode
  /\ \E c \in Callers :
       /\ Done(c, "Decrypt")
       /\ Deref(callers[c].resp).err
       /\ callers[c].err = ErrDecrypt

\* C8: whatever the store answers (an error, a result, or a success without
\* a result), Encrypt and Decrypt end by returning bytes and no error or an
\* error and no bytes, never in any other way.
C8_ReturnsBytesOrError ==
  /\ ~crashed
  /\ \A c \in Callers :
       /\ callers[c].pc # "panic"
       /\ (callers[c].pc = "idle" /\ callers[c].op # "none") =>
            \/ callers[c].bytes # Null /\ callers[c].err = ErrNone
            \/ callers[c].bytes = Null /\ callers[c].err # ErrNone

\* C9: under every interleaving of Encrypt and Decrypt calls, failed or not,
\* the client keeps the vaultURL, vaultName, keyName and keyVersion it was
\* constructed with, every request is addressed with them and the fixed
\* algorithm, and a caller whose call failed can call again.
C9_Immutable ==
  /\ kvc = built
  /\ kvc = ret.val
  /\ \A k \in kvc :
       /\ k.vaultName = SanitizeString(call.vaultName)
       /\ k.keyName = SanitizeString(call.keyName)
       /\ k.keyVersion = SanitizeString(call.keyVersion)
       /\ \A a \in sent \cup { Address(Deref(callers[c].req)) :
                                 c \in { d \in Callers : callers[d].req # Null } } :
            /\ a.vaultURL = k.vaultURL
            /\ a.keyName = k.keyName
            /\ a.keyVersion = k.keyVersion
            /\ a.Algorithm = "RSA1_5"
  /\ \A c \in Callers :
       (callers[c].pc = "idle" /\ callers[c].err # ErrNone
          /\ ~crashed /\ ncalls < MaxCalls)
         => ENABLED EncryptCall(c) /\ ENABLED DecryptCall(c)

C9_Witness ==
  \E c, d \in Callers :
    /\ c # d
    /\ Done(c, "Decrypt") /\ callers[c].err = ErrDecode
    /\ callers[d].pc = "Encrypt"
    /\ ncalls = 3
    /\ Cardinality(sent) = 2

====
